---- MODULE Spec2Model ----
(***************************************************************************)
(* loldata: the match-aggregation pipeline of api/views.py (user_info),    *)
(* api/utils/helpers.py (the match cache) and api/utils/interactions.py    *)
(* (the rate-limited fan-out, the enricher and the fold into the player's  *)
(* persisted statistics).                                                  *)
(*                                                                         *)
(* Python values are modelled as follows.  A dict is a record or a        *)
(* function on strings; an insertion-ordered dict whose order is read (the *)
(* champion map) is a sequence of [name, data] entries; a value that may  *)
(* be missing ({} for summary_json, a key that may be absent) is a        *)
(* sequence of length 0 or 1; a float rounded to 2 decimals is an integer  *)
(* number of hundredths; an exception is the name of its class in the      *)
(* field "raised" of an outcome.                                           *)
(***************************************************************************)
EXTENDS Integers, Sequences, FiniteSets, TLC

\* ------------------------------------------------------------------ bounds

\* Matches the remote listing can hold over a run.
MaxMatches == 2

\* Fetches the remote refuses (answers other than 200) over a run.
MaxThrottled == 1

\* Length of the batch folded under FoldSpec.
MaxFolds == 3

\* Length of the batch fetched under FetchSpec.
MaxBatch == 2

\* Matches the remote listing can hold over a run of PagingSpec.
MaxListing == 8

\* Participants of a match whose ranks are fetched.
MaxParticipants == 2

\* Matches won, then lost, over a run of HistorySpec.
MaxWins == 29

MaxLosses == 21

\* Largest summoner-spell key, and width of the run of queue ids from 400,
\* handed to the resolvers.
MaxSpellKey == 33

MaxQueueSpan == 50

\* ------------------------------------------------------- program constants

\* helpers.py:56  "Limit to 7 for lazy load pagination"
PageLimit == 7

\* interactions.py:193 / 510  max_attempts = 3
max_attempts == 3

\* interactions.py:201  custom and tutorial queue ids
UnscoredQueues == {0, 2000, 2010, 2020}

\* ------------------------------------------------------------ Python values

\* {} / a missing key, and a present value.
None == << >>

Some(v) == << v >>

\* round(n / d, 0) and the integer part of round(n / d, 2) * 100: Python rounds
\* the quotient half to even.  (d > 0; n / d with d = 0 raises before.)  A tie
\* whose quotient has no exact binary form (100 * n / d = q + 1/2 with d a
\* multiple of 40) is rounded by Python the way of the nearest float, to q or
\* to q + 1; either is n / d rounded to 2 decimals.
RoundHalfEven(n, d) ==
    LET q == n \div d
        r == n % d
    IN  IF 2 * r < d THEN q
        ELSE IF 2 * r > d THEN q + 1
        ELSE IF q % 2 = 0 THEN q ELSE q + 1

\* round(a / b, 2), in hundredths.
Round2(a, b) == RoundHalfEven(100 * a, b)

\* The percentage cut after its second decimal.
RoundPercent2Down(a, b) == (10000 * a) \div b

\* round(a / b * 100, 2), in hundredths of a percent.
RoundPercent2(a, b) == RoundHalfEven(10000 * a, b)

\* The whole percentages k for which the float (k / 100) * 100 falls short
\* of k: 0.29 * 100 = 28.999999999999996, 0.57 * 100 = 56.99999999999999,
\* 0.58 * 100 = 57.99999999999999 (IEEE 754 doubles, every other k in 0..100
\* is met or exceeded).
ShortPercents == {29, 57, 58}

\* int(a / b * 100): the float quotient times 100, truncated.  The float
\* error is far below 1 / b, so the truncation is the floor of 100 * a / b
\* unless that is a whole number the float product falls short of.
IntPercent(a, b) ==
    LET q == (100 * a) \div b
    IN  IF (100 * a) % b = 0 /\ q \in ShortPercents THEN q - 1 ELSE q

\* int(round(gameDuration / 60, 0))
RoundMinutes(seconds) == RoundHalfEven(seconds, 60)

\* str.lower() on the teamPosition values the remote sends.
Lower(s) ==
    CASE s = "TOP" -> "top"
      [] s = "JUNGLE" -> "jungle"
      [] s = "MIDDLE" -> "middle"
      [] s = "BOTTOM" -> "bottom"
      [] s = "UTILITY" -> "utility"
      [] OTHER -> s

\* str(datetime.fromtimestamp(ms / 1000.0).date()), as a day number.
get_date_by_timestamp(match_timestamp) == (match_timestamp \div 1000) \div 86400

\* ------------------------------------------------------- the remote's matches

\* interactions.py:275  range(0, 5): the lanes of a team.
Lanes == 5

\* The requester's ParticipantRecord and the game metadata of the kinds of
\* match the remote serves.
Participant(pos, win, k, d, a, lane, neutral, vision, champ) ==
    [teamPosition |-> pos, win |-> win, kills |-> k, deaths |-> d, assists |-> a,
     totalMinionsKilled |-> lane, neutralMinionsKilled |-> neutral,
     visionScore |-> vision, goldEarned |-> 1000 * (k + 1),
     totalDamageDealtToChampions |-> 500 * (k + a), championName |-> champ,
     summoner1Id |-> 4, summoner2Id |-> IF neutral > 0 THEN 11 ELSE 14,
     perks |-> [styles |-> << [style |-> IF win THEN 8000 ELSE 8100,
                               selections |-> << [perk |-> IF win THEN 8005 ELSE 8112] >>],
                              [style |-> IF win THEN 8100 ELSE 8400] >>],
     item0 |-> 1055, item1 |-> 3006, item2 |-> IF win THEN 3078 ELSE 0,
     item3 |-> 6631, item4 |-> IF k > 3 THEN 3053 ELSE 0, item5 |-> 0,
     item6 |-> 3340]

\* The ten participants of a match in the order the remote returns them:
\* the first five are one team.  The order is not that of the champion ids.
Participants ==
    [i \in 1..(2 * Lanes) |->
        [participantId |-> i, teamId |-> IF i <= Lanes THEN 100 ELSE 200,
         championId |-> ((7 * i) % 11) + 1]]

Game(mode, queue, duration, participant) ==
    [gameMode |-> mode, queueId |-> queue, gameDuration |-> duration,
     participant |-> participant, participants |-> Participants,
     matchups |-> << >>]

NKinds == 8

Kind(k) ==
    CASE k = 1 -> Game("CLASSIC", 420, 1500, Participant("TOP", TRUE, 5, 2, 7, 150, 10, 20, "Ahri"))
      [] k = 2 -> Game("CLASSIC", 420, 1530, Participant("TOP", FALSE, 1, 3, 0, 120, 0, 11, "Ahri"))
      [] k = 3 -> Game("CLASSIC", 400, 90, Participant("MIDDLE", TRUE, 4, 0, 2, 9, 1, 3, "Zed"))
      [] k = 4 -> Game("ARAM", 450, 900, Participant("UTILITY", TRUE, 9, 8, 30, 40, 0, 0, "Zed"))
      [] k = 5 -> Game("CLASSIC", 420, 200, Participant("", FALSE, 0, 0, 0, 12, 0, 1, "Ahri"))
      [] k = 6 -> Game("CLASSIC", 0, 1200, Participant("TOP", TRUE, 3, 1, 1, 100, 4, 8, "Ahri"))
      [] k = 7 -> Game("CLASSIC", 430, 20, Participant("JUNGLE", FALSE, 0, 1, 0, 0, 2, 0, "Lee Sin"))
      [] k = 8 -> Game("TUTORIAL_MODULE_1", 2000, 600, Participant("", TRUE, 2, 0, 0, 30, 0, 0, "Zed"))
      [] OTHER -> Game("CLASSIC", 440, 1890, Participant("BOTTOM", TRUE, 2, 4, 6, 200, 7, 15, "Lee Sin"))

\* The 200 body of match id m when the game is of kind k.  Ids grow with
\* recency: the matches are created 8 hours apart (gameCreation is in
\* milliseconds), three a day.
RawMatch(m, k) ==
    [matchId |-> m, gameCreation |-> m * 28800000 + 3600000,
     info |-> Kind(k), player_summary |-> None, date |-> None,
     summonerIds |-> [i \in 1..MaxParticipants |-> ((m + i) % 4) + 1]]

\* ------------------------------------------------------------ the resolvers
\* What a call returns or raises.
Returns(value) == [raised |-> "", value |-> value]

Raises(exception) == [raised |-> exception, value |-> ""]

\* No resolver has been called.
NoLookup == [resolver |-> "", argument |-> 0, answer |-> Returns("")]

\* helpers.py:86-101  no branch binds region for another platform.
get_region_by_platform(platform) ==
    IF platform \in {"NA1", "BR1", "LA1", "LA2", "OC1"} THEN Returns("AMERICAS")
    ELSE IF platform \in {"EUN1", "EUW1", "TR1", "RU"} THEN Returns("EUROPE")
    ELSE IF platform \in {"KR", "JP1"} THEN Returns("ASIA")
    ELSE Raises("UnboundLocalError")

\* helpers.py:104-114
get_match_mode(queue_id) ==
    CASE queue_id = 400 -> Returns("Normal Draft")
      [] queue_id = 420 -> Returns("Ranked Solo")
      [] queue_id = 430 -> Returns("Normal Blind")
      [] OTHER -> Returns("Special")

\* helpers.py:117-143
get_summoner_spell(summoner_key) ==
    CASE summoner_key = 1 -> Returns("summoner_boost")
      [] summoner_key = 3 -> Returns("summoner_exhaust")
      [] summoner_key = 4 -> Returns("summoner_flash")
      [] summoner_key = 6 -> Returns("summoner_haste")
      [] summoner_key = 7 -> Returns("summoner_heal")
      [] summoner_key = 11 -> Returns("summoner_smite")
      [] summoner_key = 12 -> Returns("summoner_teleport")
      [] summoner_key = 13 -> Returns("summonermana")
      [] summoner_key = 14 -> Returns("summonerignite")
      [] summoner_key = 21 -> Returns("summonerbarrier")
      [] summoner_key = 32 -> Returns("summoner_mark")
      [] OTHER -> Returns("summoner_empty")

\* The perks listing the remote serves: an iconPath is its segments, the
\* directories with their slash.  A keystone's icon is under Styles/, a stat
\* shard's under StatMods/.
PerksJson ==
    << [id |-> 8005, iconPath |-> << "perk-images/", "Styles/", "Precision/",
                                     "PressTheAttack/", "PressTheAttack.png" >>],
       [id |-> 8112, iconPath |-> << "perk-images/", "Styles/", "Domination/",
                                     "Electrocute/", "Electrocute.png" >>],
       [id |-> 5008, iconPath |-> << "perk-images/", "StatMods/",
                                     "StatModsAdaptiveForceIcon.png" >>] >>

\* helpers.py:146-150  next(..., None) is None for an id the listing does not
\* hold, and None has no items; split("Styles/", 1) has one part when the path
\* has no such directory.
get_rune_primary(rune_id, data_json) ==
    LET hits == {i \in 1..Len(data_json) : data_json[i].id = rune_id}
    IN  IF hits = {} THEN Raises("TypeError")
        ELSE LET rune_dict == data_json[CHOOSE i \in hits : \A j \in hits : i <= j]
                 path == rune_dict.iconPath
                 cuts == {i \in 1..Len(path) : path[i] = "Styles/"}
             IN  IF cuts = {} THEN Raises("IndexError")
                 ELSE LET cut == CHOOSE i \in cuts : \A j \in cuts : i <= j
                      IN  Returns(SubSeq(path, cut + 1, Len(path)))

\* helpers.py:153-165
get_rune_secondary(rune_id) ==
    CASE rune_id = 8000 -> Returns("7201_precision")
      [] rune_id = 8100 -> Returns("7200_domination")
      [] rune_id = 8200 -> Returns("7202_sorcery")
      [] rune_id = 8300 -> Returns("7203_whimsy")
      [] OTHER -> Returns("7204_resolve")

\* ------------------------------------------------------------ the enricher

\* The KDA whose substitute for zero deaths leaves the assists out.
kdaKillsOnly(kills, deaths, assists) ==
    IF deaths # 0 THEN Round2(kills + assists, deaths) ELSE 100 * kills

\* interactions.py:208-222  KDA, in hundredths.
kda(kills, deaths, assists) ==
    IF deaths # 0 THEN Round2(kills + assists, deaths) ELSE 100 * (kills + assists)

\* interactions.py:234-238  the primary rune of the requester: the first
\* selection of the first style.
RunePrimary(match) ==
    get_rune_primary(match.info.participant.perks.styles[1].selections[1].perk,
                     PerksJson)

\* The item list in the order of the slots.
ItemsInSlotOrder(p) ==
    << p.item0, p.item1, p.item2, p.item3, p.item4, p.item5, p.item6 >>

\* interactions.py:257-265  the item list: the trinket (slot 6) comes fourth.
Items(p) ==
    << p.item0, p.item1, p.item2, p.item6, p.item3, p.item4, p.item5 >>

\* The pairing of each participant with its neighbour in the list.
MatchupsOfNeighbours(participants) ==
    [i \in 1..Lanes |-> << participants[2 * i - 1], participants[2 * i] >>]

\* interactions.py:274-281  participant i faces participant i + 5.
Matchups(participants) ==
    [i \in 1..Lanes |-> << participants[i], participants[i + Lanes] >>]

\* interactions.py:197-282  what get_match_preview makes of a 200 body.  The
\* requester's record is the one helpers.get_participant_number points at,
\* and helpers.get_preview_stats (neither is in src/) is taken to keep its
\* fields.
Enrich(match) ==
    IF match.info.queueId \notin UnscoredQueues
    THEN LET p == match.info.participant
         IN  [match EXCEPT
                !.player_summary =
                    Some([participant |-> p,
                          kda |-> kda(p.kills, p.deaths, p.assists),
                          summoner_spell_1 |-> get_summoner_spell(p.summoner1Id).value,
                          summoner_spell_2 |-> get_summoner_spell(p.summoner2Id).value,
                          rune_primary |-> RunePrimary(match).value,
                          rune_secondary |->
                              get_rune_secondary(p.perks.styles[2].style).value,
                          items |-> Items(p)]),
                !.date = Some(get_date_by_timestamp(match.gameCreation)),
                !.info.matchups = Matchups(match.info.participants)]
    ELSE match

\* The exception the enrichment of a 200 body ends with, "" when it returns:
\* get_rune_primary is the one call of interactions.py:200-281 that raises.
EnrichRaises(match) ==
    IF match.info.queueId \notin UnscoredQueues THEN RunePrimary(match).raised
    ELSE ""

\* The GETs of the perks listing the enrichment of a 200 body issues: one for
\* each call of get_rune_primary (helpers.py:147-148).
PerksRequests(match) == IF match.info.queueId \notin UnscoredQueues THEN 1 ELSE 0

\* ------------------------------------------------------------ AggregateStats

PlayerName == "Faker"

StatNames == {"kills", "deaths", "assists", "minions", "vision"}

EmptyStat == [total |-> 0, per_min |-> 0, per_match |-> 0]

\* helpers.py:14-32  the Summoner row create_user_db stores.  matches, minutes
\* and champions are not passed and take the model's defaults (0, 0, {}).
create_user_db(summoner_name) ==
    [summoner |-> summoner_name, matches |-> 0, minutes |-> 0,
     stats |-> [kills |-> EmptyStat, deaths |-> EmptyStat, assists |-> EmptyStat,
                minions |-> EmptyStat, vision |-> EmptyStat],
     roles |-> [TOP |-> [NUM |-> 0, WIN_RATE |-> 0, WINS |-> 0, LOSSES |-> 0],
                JUNGLE |-> [NUM |-> 0, WIN_RATE |-> 0, WINS |-> 0, LOSSES |-> 0],
                MIDDLE |-> [NUM |-> 0, WIN_RATE |-> 0, WINS |-> 0, LOSSES |-> 0],
                BOTTOM |-> [NUM |-> 0, WIN_RATE |-> 0, WINS |-> 0, LOSSES |-> 0],
                UTILITY |-> [NUM |-> 0, WIN_RATE |-> 0, WINS |-> 0, LOSSES |-> 0]],
     champions |-> << >>]

\* An empty Summoner row that is already stored when the interaction starts
\* (views.py:41 takes it as it is), in the shape interactions.py:165-176
\* addresses: role keys and fields in lower case.
StoredEmptySummoner(summoner_name) ==
    [create_user_db(summoner_name) EXCEPT
        !.roles = [top |-> [num |-> 0, win_rate |-> 0, wins |-> 0, losses |-> 0],
                   jungle |-> [num |-> 0, win_rate |-> 0, wins |-> 0, losses |-> 0],
                   middle |-> [num |-> 0, win_rate |-> 0, wins |-> 0, losses |-> 0],
                   bottom |-> [num |-> 0, win_rate |-> 0, wins |-> 0, losses |-> 0],
                   utility |-> [num |-> 0, win_rate |-> 0, wins |-> 0, losses |-> 0]]]

\* An outcome of a step that may raise: the exception's class ("" when none)
\* and the object as the step leaves it.
Ok(db) == [raised |-> "", db |-> db]

Raise(exception, db) == [raised |-> exception, db |-> db]

\* The stat with its rates taken before the total is moved.
AddStatStale(db, name, value) ==
    LET total == db.stats[name].total + value
        added == [db EXCEPT !.stats[name].total = total]
    IN  IF db.minutes = 0
        THEN Raise("ZeroDivisionError", added)
        ELSE Ok([added EXCEPT
                    !.stats[name].per_min = Round2(db.stats[name].total, db.minutes),
                    !.stats[name].per_match = Round2(db.stats[name].total, db.matches)])

\* interactions.py:301-307 (and 309-341): one tracked stat of
\* add_database_ranked_stats; minutes = 0 raises at the first division.
AddStat(db, name, value) ==
    LET total == db.stats[name].total + value
        added == [db EXCEPT !.stats[name].total = total]
    IN  IF db.minutes = 0
        THEN Raise("ZeroDivisionError", added)
        ELSE Ok([added EXCEPT !.stats[name].per_min = Round2(total, db.minutes),
                              !.stats[name].per_match = Round2(total, db.matches)])

\* The minions value without the neutral minions.
MinionsLaneOnly(player_json) == player_json.totalMinionsKilled

\* The minions value of a match: lane and neutral minions (interactions.py:325-327).
MinionsOf(player_json) ==
    player_json.totalMinionsKilled + player_json.neutralMinionsKilled

\* The one outcome of a statement (the set holds the outcome of one run).
Outcome(outcomes) == CHOOSE o \in outcomes : TRUE

\* interactions.py:297-343  the statements run in sequence, each on the
\* object the one before it left, up to the first that raises.
add_database_ranked_stats(summoner_db, match, player_json) ==
    LET Then(o, name, value) ==
            IF o.raised # "" THEN o ELSE AddStat(o.db, name, value)
        s0 == {Ok([summoner_db EXCEPT
                     !.matches = @ + 1,
                     !.minutes = @ + RoundMinutes(match.info.gameDuration)])}
        s1 == {Then(o, "kills", player_json.kills) : o \in s0}
        s2 == {Then(o, "assists", player_json.assists) : o \in s1}
        s3 == {Then(o, "deaths", player_json.deaths) : o \in s2}
        s4 == {Then(o, "minions", MinionsOf(player_json)) : o \in s3}
    IN  Outcome({Then(o, "vision", player_json.visionScore) : o \in s4})

\* The position of a champion in the champion map, 0 when it is not a key.
ChampionIndex(champions, name) ==
    IF \E i \in 1..Len(champions) : champions[i].name = name
    THEN CHOOSE i \in 1..Len(champions) : champions[i].name = name
    ELSE 0

\* A quotient kept as numerator and denominator: play_rate is stored
\* unrounded (1 / matches) on the first sighting and rounded to 2 decimals
\* (hundredths / 100) afterwards.
Ratio(n, d) == [n |-> n, d |-> d]

\* interactions.py:346-404
add_database_champion_stats(summoner_db, match, player_json) ==
    LET kills == player_json.kills
        assists == player_json.assists
        deaths == player_json.deaths
        i == ChampionIndex(summoner_db.champions, player_json.championName)
        date == get_date_by_timestamp(match.gameCreation)
    IN  IF i = 0
        THEN [summoner_db EXCEPT !.champions = Append(@,
                [name |-> player_json.championName,
                 data |-> [num |-> 1, kills |-> kills, assists |-> assists,
                           deaths |-> deaths,
                           kda |-> IF deaths # 0 THEN Round2(kills + assists, deaths)
                                   ELSE 100 * (kills + assists),
                           wins |-> IF player_json.win THEN 1 ELSE 0,
                           losses |-> IF ~player_json.win THEN 1 ELSE 0,
                           win_rate |-> IF player_json.win THEN 10000 ELSE 0,
                           play_rate |-> Ratio(1, summoner_db.matches),
                           minions |-> MinionsOf(player_json),
                           vision |-> player_json.visionScore,
                           gold |-> player_json.goldEarned,
                           damage |-> player_json.totalDamageDealtToChampions,
                           last_played |-> date]])]
        ELSE LET c == summoner_db.champions[i].data
                 num == c.num + 1
                 k == c.kills + kills
                 a == c.assists + assists
                 d == c.deaths + deaths
                 wins == IF player_json.win THEN c.wins + 1 ELSE c.wins
                 losses == IF player_json.win THEN c.losses ELSE c.losses + 1
             IN  [summoner_db EXCEPT !.champions[i].data =
                    [num |-> num, kills |-> k, assists |-> a, deaths |-> d,
                     kda |-> IF d # 0 THEN Round2(k + a, d) ELSE 100 * (k + a),
                     wins |-> wins, losses |-> losses,
                     win_rate |-> RoundPercent2(wins, num),
                     play_rate |-> Ratio(Round2(num, summoner_db.matches), 100),
                     minions |-> c.minions + MinionsOf(player_json),
                     vision |-> c.vision + player_json.visionScore,
                     gold |-> c.gold + player_json.goldEarned,
                     damage |-> c.damage + player_json.totalDamageDealtToChampions,
                     last_played |-> date]]

\* The condition without its test of the game mode.
CountedAnyMode(match, position) == position # ""

\* interactions.py:164  the condition under which a match moves the counters.
Counted(match, position) == match.info.gameMode = "CLASSIC" /\ position # ""

\* The role bucket with its count moved under the test of the win.
AddRoleOnWin(summoner_db, position, win) ==
    IF position \notin DOMAIN summoner_db.roles
       \/ "num" \notin DOMAIN summoner_db.roles[position]
    THEN Raise("KeyError", summoner_db)
    ELSE LET r == summoner_db.roles[position]
             num == IF win THEN r.num + 1 ELSE r.num
             wins == IF win THEN r.wins + 1 ELSE r.wins
             losses == IF win THEN r.losses ELSE r.losses + 1
         IN  Ok([summoner_db EXCEPT !.roles[position] =
                    [num |-> num, wins |-> wins, losses |-> losses,
                     win_rate |-> IF num = 0 THEN 0 ELSE IntPercent(wins, num)]])

\* interactions.py:165-176  the role bucket of the match.
AddRole(summoner_db, position, win) ==
    IF position \notin DOMAIN summoner_db.roles
       \/ "num" \notin DOMAIN summoner_db.roles[position]
    THEN Raise("KeyError", summoner_db)
    ELSE LET r == summoner_db.roles[position]
             num == r.num + 1
             wins == IF win THEN r.wins + 1 ELSE r.wins
             losses == IF win THEN r.losses ELSE r.losses + 1
         IN  Ok([summoner_db EXCEPT !.roles[position] =
                    [num |-> num, wins |-> wins, losses |-> losses,
                     win_rate |-> IntPercent(wins, num)]])

\* interactions.py:159-184  one iteration of the fold loop of
\* get_match_preview_list.
FoldMatch(summoner_db, match) ==
    IF match.player_summary = None
    THEN Raise("KeyError", summoner_db)
    ELSE LET player_json == match.player_summary[1].participant
             position_dict == Lower(player_json.teamPosition)
         IN  IF Counted(match, position_dict)
             THEN LET r == AddRole(summoner_db, position_dict, player_json.win)
                      s == IF r.raised # "" THEN r
                           ELSE add_database_ranked_stats(r.db, match, player_json)
                  IN  IF s.raised # "" THEN s
                      ELSE Ok(add_database_champion_stats(s.db, match, player_json))
             ELSE Ok(summoner_db)

\* A sort key that is the count alone.
KeyGreaterByCount(a, b) == a.num > b.num

\* views.py:56-62  sorted(champions.items(), key=(num, win_rate, kda),
\* reverse=True): descending, entries with equal keys keep their order.
KeyGreater(a, b) ==
    \/ a.num > b.num
    \/ a.num = b.num /\ a.win_rate > b.win_rate
    \/ a.num = b.num /\ a.win_rate = b.win_rate /\ a.kda > b.kda

RECURSIVE InsertChampion(_, _)
InsertChampion(sorted, entry) ==
    IF sorted = << >> THEN << entry >>
    ELSE IF KeyGreater(entry.data, Head(sorted).data)
         THEN << entry >> \o sorted
         ELSE << Head(sorted) >> \o InsertChampion(Tail(sorted), entry)

RECURSIVE SortChampions(_)
SortChampions(champions) ==
    IF champions = << >> THEN << >>
    ELSE InsertChampion(SortChampions(SubSeq(champions, 1, Len(champions) - 1)),
                        champions[Len(champions)])

\* ------------------------------------------------------------ the match cache

\* Match.objects.filter(match_id=match, summoner=summoner_name)
MatchRows(table, match, summoner_name) ==
    {i \in 1..Len(table) :
        table[i].match_id = match /\ table[i].summoner = summoner_name}

\* helpers.py:35-43  the rows add_matches_to_db creates: the ids of the
\* listing before the first one that has a row.
RECURSIVE NewMatches(_, _, _)
NewMatches(matchlist, summoner_name, table) ==
    IF matchlist = << >> THEN << >>
    ELSE IF MatchRows(table, Head(matchlist), summoner_name) # {}
         THEN << >>
         ELSE << [match_id |-> Head(matchlist), summoner |-> summoner_name,
                  summary_json |-> None] >>
              \o NewMatches(Tail(matchlist), summoner_name, table)

\* The rows without the stop at the first id that has one: a new row for
\* every listed id.
add_listed_matches(matchlist, summoner_name, table) ==
    table \o [i \in 1..Len(matchlist) |->
                [match_id |-> matchlist[i], summoner |-> summoner_name,
                 summary_json |-> None]]

add_matches_to_db(matchlist, summoner_name, table) ==
    table \o NewMatches(matchlist, summoner_name, table)

\* helpers.py:46-58
RECURSIVE FindSummaries(_, _, _, _)
FindSummaries(matchlist, summoner_name, table, found) ==
    IF matchlist = << >> THEN found
    ELSE IF \E i \in MatchRows(table, Head(matchlist), summoner_name) :
                table[i].summary_json = None
         THEN LET more == Append(found, Head(matchlist))
              IN  IF Len(more) = PageLimit THEN more
                  ELSE FindSummaries(Tail(matchlist), summoner_name, table, more)
         ELSE FindSummaries(Tail(matchlist), summoner_name, table, found)

\* The selection without its cap: every listed id with an empty row.
find_summaries_uncapped(matchlist, summoner_name, table) ==
    LET Empty(m) == \E i \in MatchRows(table, m, summoner_name) :
                        table[i].summary_json = None
    IN  SelectSeq(matchlist, Empty)

\* The selection without its test of the payload: the first listed ids.
find_summaries_listed(matchlist, summoner_name, table) ==
    SubSeq(matchlist, 1, IF Len(matchlist) < PageLimit THEN Len(matchlist)
                         ELSE PageLimit)

find_summaries_not_in_db(matchlist, summoner_name, table) ==
    FindSummaries(matchlist, summoner_name, table, << >>)

\* helpers.py:61-70  each summary is written to the row of its match id.
RECURSIVE save_summaries_to_db(_, _, _)
save_summaries_to_db(match_summary_list, summoner_name, table) ==
    IF match_summary_list = << >> THEN table
    ELSE LET match == Head(match_summary_list)
             i == CHOOSE j \in MatchRows(table, match.matchId, summoner_name) : TRUE
         IN  save_summaries_to_db(Tail(match_summary_list), summoner_name,
                                  [table EXCEPT ![i].summary_json = Some(match)])

\* ------------------------------------------------------------ the remote

\* interactions.py:125  the listing holds the 100 most recent match ids.
ListingWindow == 100

\* The kinds of match the remote serves to the pipeline: a counted game, a
\* game of another mode, a custom game.
PipelineKinds == {1, 4, 6}

\* Retry-After header values of a 429, as the characters of the header.
RetryAfterHeaders == {<< "1" >>, << "0", "2" >>}

\* Statuses other than 200 and 429.
OtherStatuses == {404, 500}

DigitValue(c) ==
    CASE c = "0" -> 0 [] c = "1" -> 1 [] c = "2" -> 2 [] c = "3" -> 3
      [] c = "4" -> 4 [] c = "5" -> 5 [] c = "6" -> 6 [] c = "7" -> 7
      [] c = "8" -> 8 [] c = "9" -> 9

\* int(response.headers["Retry-After"]) on a decimal header.
RECURSIVE ParseInt(_)
ParseInt(header) ==
    IF header = << >> THEN 0
    ELSE 10 * ParseInt(SubSeq(header, 1, Len(header) - 1))
         + DigitValue(header[Len(header)])

\* The rank entries the remote holds for a summoner id.
LeaguesOf(summoner_id) ==
    CASE summoner_id = 1 -> << [queueType |-> "RANKED_SOLO_5x5", tier |-> "GOLD", rank |-> "II"] >>
      [] summoner_id = 2 -> << >>
      [] summoner_id = 3 -> << [queueType |-> "RANKED_FLEX_SR", tier |-> "IRON", rank |-> "IV"],
                               [queueType |-> "RANKED_SOLO_5x5", tier |-> "SILVER", rank |-> "I"] >>
      [] OTHER -> << [queueType |-> "RANKED_FLEX_SR", tier |-> "MASTER", rank |-> "I"] >>

\* ------------------------------------------------------------ the state

VARIABLES
    played,              \* remote: the kind of every match played, oldest first;
                         \* the id of a match is its position
    budget,              \* remote: the fetches it may still start to refuse
    Summoner,            \* the Summoner table, a sequence of rows
    Match,               \* the Match table, a sequence of rows
    pc,                  \* where the running handler stands ("idle": none runs)
    matchlist,           \* user_info: the listing it fetched
    summoner_db,         \* the Summoner object in memory (None when none is held)
    tasks,               \* the futures handed to gather, in submission order
    match_preview_list,  \* the list gather returned
    cursor,              \* the position of the fold loop in match_preview_list
    outcome,             \* how the last handler ended
    folded,              \* history: the match ids folded into the object in memory
    saved_folds,         \* history: the match ids folded into the stored Summoner row
    fanout_db,           \* history: the tables as they were when the fan-out began
    match_json,          \* get_players_ranks: the match whose participants are ranked
    other,               \* a second user_info interaction of the player, run by
                         \* another worker: where it stands and its locals
    lookup,              \* the last call of an enrichment resolver: its
                         \* argument and what it returned or raised
    namesake             \* the player of the same display name on another
                         \* server: the matches played there and, as history,
                         \* those its interactions folded and stored

vars == << played, budget, Summoner, Match, pc, matchlist, summoner_db, tasks,
           match_preview_list, cursor, outcome, folded, saved_folds,
           fanout_db, match_json, other, lookup, namesake >>

remote == << played, budget >>

tables == << Summoner, Match >>

\* get_matchlist: the ids of the listing, most recent first.
Listing ==
    [i \in 1..(IF Len(played) < ListingWindow THEN Len(played) ELSE ListingWindow)
        |-> Len(played) + 1 - i]

\* The future of one fetch: get_match_preview (kind "match", key a match id)
\* or get_leagues_json (kind "leagues", key a summoner id).
\*   st        "ready" to issue a request, "sleeping" in asyncio.sleep,
\*             "returned" or "raised"
\*   attempts  the loop counter
\*   remaining the time left to sleep
\*   requests  history: the requests issued
\*   throttles history: the 429 responses received
\*   last      history: the status of the last response (0 before the first)
\*   naps      history: the suspensions, each the Retry-After header
\*             received, the duration passed to sleep and the part of it
\*             that has passed
\*   result    the value returned
\*   error     the message of the exception raised ("" when none)
NewTask(kind, key) ==
    [kind |-> kind, key |-> key, st |-> "ready", attempts |-> 0, remaining |-> 0,
     requests |-> 0, throttles |-> 0, last |-> 0, naps |-> << >>, result |-> None,
     error |-> "", perks_requests |-> 0, region |-> ""]

\* ------------------------------------------------------------ one fetch

\* interactions.py:294 / 527  the message of the only exception a fetch raises.
MaxedOut == "Failed: Maxed out attempts"

\* The loop test off by one: attempts <= max_attempts.
NextAttemptOffByOne(task) ==
    LET n == task.attempts + 1
    IN  [task EXCEPT !.attempts = n,
                     !.st = IF n <= max_attempts THEN "ready" ELSE "raised",
                     !.error = IF n <= max_attempts THEN "" ELSE MaxedOut]

\* interactions.py:291-294 / 524-527  attempts += 1, then the loop test.
NextAttempt(task) ==
    LET n == task.attempts + 1
    IN  [task EXCEPT !.attempts = n,
                     !.st = IF n < max_attempts THEN "ready" ELSE "raised",
                     !.error = IF n < max_attempts THEN "" ELSE MaxedOut]

\* The body of a 200 for a task.
Body(task) ==
    IF task.kind = "match" THEN RawMatch(task.key, played[task.key])
    ELSE LeaguesOf(task.key)

\* interactions.py:197-282 / 514-515  a 200: the task returns, or ends with
\* the exception of the enrichment.
On200(task) ==
    IF task.kind = "match" /\ EnrichRaises(Body(task)) # ""
    THEN [task EXCEPT !.requests = @ + 1,
                      !.last = 200,
                      !.st = "raised",
                      !.error = EnrichRaises(Body(task)),
                      !.perks_requests = @ + PerksRequests(Body(task))]
    ELSE [task EXCEPT !.requests = @ + 1,
                      !.last = 200,
                      !.st = "returned",
                      !.perks_requests =
                          @ + (IF task.kind = "match" THEN PerksRequests(Body(task))
                               ELSE 0),
                      !.result = Some(IF task.kind = "match" THEN Enrich(Body(task))
                                      ELSE Body(task))]

\* interactions.py:284-290 / 517-523  a 429: the task sleeps for Retry-After.
On429(task, header) ==
    [task EXCEPT !.requests = @ + 1,
                 !.throttles = @ + 1,
                 !.last = 429,
                 !.st = "sleeping",
                 !.remaining = ParseInt(header),
                 !.naps = Append(@, [header |-> header, slept |-> ParseInt(header),
                                     waited |-> 0])]

\* interactions.py:291 / 524  any other status: the next attempt, at once.
OnOther(task, status) ==
    NextAttempt([task EXCEPT !.requests = @ + 1, !.last = status])

\* A task may issue a request when it is in the loop and not suspended.
MayRequest(task) == task.st = "ready"

\* The tasks run while gather waits; once one of them has raised, gather
\* raises and what the others would do is dropped with the event loop.
Fetching ==
    /\ pc \in {"gather", "ranks"}
    /\ \A i \in 1..Len(tasks) : tasks[i].st # "raised"

Request200(i) ==
    /\ Fetching
    /\ MayRequest(tasks[i])
    /\ tasks' = [tasks EXCEPT ![i] = On200(@)]
    /\ UNCHANGED << remote, tables, pc, matchlist, summoner_db, match_preview_list,
                    cursor, outcome, folded, saved_folds, fanout_db,
                    match_json, other, lookup, namesake >>

\* The remote refuses a fetch it has refused before, or a new one while its
\* budget lasts.
Refuse(i) ==
    IF tasks[i].requests > 0 /\ tasks[i].last # 200
    THEN UNCHANGED budget
    ELSE budget > 0 /\ budget' = budget - 1

Request429(i, header) ==
    /\ Fetching
    /\ MayRequest(tasks[i])
    /\ Refuse(i)
    /\ tasks' = [tasks EXCEPT ![i] = On429(@, header)]
    /\ UNCHANGED << played, tables, pc, matchlist, summoner_db, match_preview_list,
                    cursor, outcome, folded, saved_folds, fanout_db,
                    match_json, other, lookup, namesake >>

RequestOther(i, status) ==
    /\ Fetching
    /\ MayRequest(tasks[i])
    /\ Refuse(i)
    /\ tasks' = [tasks EXCEPT ![i] = OnOther(@, status)]
    /\ UNCHANGED << played, tables, pc, matchlist, summoner_db, match_preview_list,
                    cursor, outcome, folded, saved_folds, fanout_db,
                    match_json, other, lookup, namesake >>

\* Time passes for the sleeping tasks.
Tick ==
    /\ Fetching
    /\ \E i \in 1..Len(tasks) : tasks[i].st = "sleeping" /\ tasks[i].remaining > 0
    /\ tasks' = [i \in 1..Len(tasks) |->
                    IF tasks[i].st = "sleeping"
                    THEN [tasks[i] EXCEPT
                            !.remaining = IF @ > 0 THEN @ - 1 ELSE 0,
                            !.naps[Len(tasks[i].naps)].waited =
                                IF tasks[i].remaining > 0 THEN @ + 1 ELSE @]
                    ELSE tasks[i]]
    /\ UNCHANGED << remote, tables, pc, matchlist, summoner_db, match_preview_list,
                    cursor, outcome, folded, saved_folds, fanout_db,
                    match_json, other, lookup, namesake >>

\* A sleep that returns at once, whatever its duration.
MayWakeEarly(task) == task.st = "sleeping"

\* asyncio.sleep returns once its duration has passed.
MayWake(task) == task.st = "sleeping" /\ task.remaining = 0

Wake(i) ==
    /\ Fetching
    /\ MayWake(tasks[i])
    /\ tasks' = [tasks EXCEPT ![i] = NextAttempt(@)]
    /\ UNCHANGED << remote, tables, pc, matchlist, summoner_db, match_preview_list,
                    cursor, outcome, folded, saved_folds, fanout_db,
                    match_json, other, lookup, namesake >>

\* ------------------------------------------------------------ the handlers

NoTables == [Summoner |-> << >>, Match |-> << >>]

\* The handler ends: its locals are dropped.
End(how) ==
    /\ pc' = "idle"
    /\ outcome' = how
    /\ matchlist' = << >>
    /\ summoner_db' = None
    /\ tasks' = << >>
    /\ match_preview_list' = << >>
    /\ cursor' = 0
    /\ folded' = << >>
    /\ fanout_db' = NoTables

SummonerRows(table, summoner_name) ==
    {i \in 1..Len(table) : table[i].summoner = summoner_name}

\* A match is played: the listing gets a new most recent id.
PlayMatch(k, limit) ==
    /\ pc = "idle"
    /\ Len(played) < limit
    /\ played' = Append(played, k)
    /\ UNCHANGED << budget, tables, pc, matchlist, summoner_db, tasks,
                    match_preview_list, cursor, outcome, folded,
                    saved_folds, fanout_db, match_json, other, lookup, namesake >>

\* views.py:76-78  the summoner is not found: nothing is stored.
user_info_not_found ==
    /\ pc = "idle"
    /\ outcome' = "not_found"
    /\ UNCHANGED << remote, tables, pc, matchlist, summoner_db, tasks,
                    match_preview_list, cursor, folded, saved_folds, fanout_db,
                    match_json, other, lookup, namesake >>

\* views.py:35-45  the summoner is found: its row is created when there is
\* none, the listing is fetched and its new ids get rows.
user_info_begin ==
    /\ pc = "idle"
    /\ Summoner' = IF SummonerRows(Summoner, PlayerName) = {}
                   THEN Append(Summoner, create_user_db(PlayerName))
                   ELSE Summoner
    /\ matchlist' = Listing
    /\ Match' = add_matches_to_db(Listing, PlayerName, Match)
    /\ pc' = "select"
    /\ outcome' = "running"
    /\ UNCHANGED << remote, summoner_db, tasks, match_preview_list, cursor, folded,
                    saved_folds, fanout_db, match_json, other, lookup, namesake >>

\* The platform the remote played a kind of match on.
PlatformOfKind(k) ==
    CASE k = 4 -> "NA1"
      [] k = 7 -> "KR"
      [] OTHER -> "EUW1"

\* A match id as the listing spells it, "<platform>_<number>".
MatchId(m) == [platform |-> PlatformOfKind(played[m]), number |-> m]

\* The region of the platform of the last id of the batch.
RegionOfLastId(matches) ==
    get_region_by_platform(MatchId(matches[Len(matches)]).platform)

\* interactions.py:140-141  the region of the platform prefix of the first id
\* of the batch.
RegionOfBatch(matches) ==
    get_region_by_platform(MatchId(matches[1]).platform)

\* views.py:46-53, interactions.py:139-155  the ids to fetch are selected,
\* the Summoner row is loaded and one task per id is handed to gather, its url
\* on the region of the batch.  With nothing selected,
\* get_match_preview_list returns a name it never bound (interactions.py:186).
user_info_select ==
    /\ pc = "select"
    /\ LET matches == find_summaries_not_in_db(matchlist, PlayerName, Match)
           row == CHOOSE i \in SummonerRows(Summoner, PlayerName) : TRUE
       IN  IF matches = << >>
           THEN End("UnboundLocalError")
           ELSE IF RegionOfBatch(matches).raised # ""
           THEN End(RegionOfBatch(matches).raised)
           ELSE /\ pc' = "gather"
                /\ summoner_db' = Some(Summoner[row])
                /\ tasks' = [i \in 1..Len(matches) |->
                                [NewTask("match", matches[i]) EXCEPT
                                    !.region = RegionOfBatch(matches).value]]
                /\ fanout_db' = [Summoner |-> Summoner, Match |-> Match]
                /\ folded' = saved_folds
                /\ UNCHANGED << matchlist, match_preview_list, cursor, outcome >>
    /\ UNCHANGED << remote, tables, saved_folds, match_json, other, lookup, namesake >>

\* A gather that keeps what it has: the results of the tasks that returned
\* are stored before the exception ends the handler.
ReturnedResults ==
    LET Returned(t) == t.st = "returned"
        done == SelectSeq(tasks, Returned)
    IN  [i \in 1..Len(done) |-> done[i].result[1]]

gather_raise_partial ==
    /\ pc \in {"gather", "ranks"}
    /\ \E i \in 1..Len(tasks) : tasks[i].st = "raised"
    /\ Match' = IF pc = "gather"
                THEN save_summaries_to_db(ReturnedResults, PlayerName, Match)
                ELSE Match
    /\ End("Exception")
    /\ UNCHANGED << remote, Summoner, saved_folds, match_json, other, lookup, namesake >>

\* gather re-raises the exception of the first task that raises
\* (interactions.py:157 / 465); nothing catches it and the handler ends.
gather_raise ==
    /\ pc \in {"gather", "ranks"}
    /\ \E i \in 1..Len(tasks) : tasks[i].st = "raised"
    /\ End("Exception")
    /\ UNCHANGED << remote, tables, saved_folds, match_json, other, lookup, namesake >>

\* The results of the tasks, the last one submitted first.
GatheredReversed(ts) == [i \in 1..Len(ts) |-> ts[Len(ts) + 1 - i].result[1]]

\* The list gather returns: the results of the tasks it was given.
Gathered(ts) == [i \in 1..Len(ts) |-> ts[i].result[1]]

AllReturned == \A i \in 1..Len(tasks) : tasks[i].st = "returned"

\* interactions.py:157  every task has returned.
gather_matches ==
    /\ pc = "gather"
    /\ AllReturned
    /\ match_preview_list' = Gathered(tasks)
    /\ pc' = "fold"
    /\ cursor' = 1
    /\ UNCHANGED << remote, tables, matchlist, summoner_db, tasks, outcome,
                    folded, saved_folds, fanout_db, match_json, other, lookup, namesake >>

\* interactions.py:159-186  one iteration of the fold loop; after the last
\* one the object goes back to user_info.
fold_match ==
    /\ pc = "fold"
    /\ LET match == match_preview_list[cursor]
           o == FoldMatch(summoner_db[1], match)
       IN  IF o.raised # ""
           THEN End(o.raised)
           ELSE /\ summoner_db' = Some(o.db)
                /\ folded' = Append(folded, match.matchId)
                /\ cursor' = cursor + 1
                /\ pc' = IF cursor = Len(match_preview_list) THEN "save" ELSE "fold"
                /\ UNCHANGED << matchlist, tasks, match_preview_list, outcome, fanout_db >>
    /\ UNCHANGED << remote, tables, saved_folds, match_json, other, lookup, namesake >>

\* views.py:55-63  the champion map is sorted and the row stored.
user_info_save ==
    /\ pc = "save"
    /\ LET row == CHOOSE i \in SummonerRows(Summoner, PlayerName) : TRUE
           sorted == [summoner_db[1] EXCEPT !.champions = SortChampions(@)]
       IN  /\ summoner_db' = Some(sorted)
           /\ Summoner' = [Summoner EXCEPT ![row] = sorted]
    /\ saved_folds' = folded
    /\ pc' = "summaries"
    /\ UNCHANGED << remote, Match, matchlist, tasks, match_preview_list, cursor,
                    outcome, folded, fanout_db, match_json, other, lookup, namesake >>

\* views.py:64  the summaries are stored and the page is rendered.
user_info_summaries ==
    /\ pc = "summaries"
    /\ IF \A i \in 1..Len(match_preview_list) :
            Cardinality(MatchRows(Match, match_preview_list[i].matchId, PlayerName)) = 1
       THEN /\ Match' = save_summaries_to_db(match_preview_list, PlayerName, Match)
            /\ End("ok")
       ELSE /\ UNCHANGED Match
            /\ End("Match.get")
    /\ UNCHANGED << remote, Summoner, saved_folds, match_json, other, lookup, namesake >>

\* The tier label that looks for the solo entry whatever the queue.
TierLabelSolo(leagues, queueId) ==
    LET hits == {i \in 1..Len(leagues) : leagues[i].queueType = "RANKED_SOLO_5x5"}
    IN  IF hits = {} THEN << "Unranked" >>
        ELSE LET first == CHOOSE i \in hits : \A j \in hits : i <= j
             IN  << leagues[first].tier, leagues[first].rank >>

\* interactions.py:468-499  the tier label of one participant: the first
\* entry of the queue type of the match, "TIER DIVISION", or "Unranked".
TierLabel(leagues, queueId) ==
    LET wanted == IF queueId = 440 THEN "RANKED_FLEX_SR" ELSE "RANKED_SOLO_5x5"
        hits == {i \in 1..Len(leagues) : leagues[i].queueType = wanted}
    IN  IF hits = {} THEN << "Unranked" >>
        ELSE LET first == CHOOSE i \in hits : \A j \in hits : i <= j
             IN  << leagues[first].tier, leagues[first].rank >>

\* views.py:83-95, interactions.py:407-463  the load button of a match: its
\* cached summary is read and one rank task per participant is handed to
\* gather.  An empty summary has no "info".
get_match_data(match_id) ==
    /\ pc = "idle"
    /\ Cardinality(MatchRows(Match, match_id, PlayerName)) = 1
    /\ LET i == CHOOSE j \in MatchRows(Match, match_id, PlayerName) : TRUE
           summary_json == Match[i].summary_json
       IN  IF summary_json = None
           THEN /\ outcome' = "KeyError"
                /\ UNCHANGED << pc, tasks, match_json >>
           ELSE /\ outcome' = "running"
                /\ pc' = "ranks"
                /\ match_json' =
                     [queueId |-> summary_json[1].info.queueId,
                      participants |->
                         [p \in 1..Len(summary_json[1].summonerIds) |->
                             [summonerId |-> summary_json[1].summonerIds[p],
                              tier |-> None]]]
                /\ tasks' = [p \in 1..Len(summary_json[1].summonerIds) |->
                                NewTask("leagues", summary_json[1].summonerIds[p])]
    /\ UNCHANGED << remote, tables, matchlist, summoner_db, match_preview_list,
                    cursor, folded, saved_folds, fanout_db, other, lookup, namesake >>

\* interactions.py:465-503  every rank task has returned: the labels are
\* written on the participants by position.
gather_ranks ==
    /\ pc = "ranks"
    /\ AllReturned
    /\ LET summoners_leagues_list == Gathered(tasks)
       IN  match_json' =
             [match_json EXCEPT !.participants =
                [current_player \in 1..Len(match_json.participants) |->
                    IF current_player <= Len(summoners_leagues_list)
                    THEN [match_json.participants[current_player] EXCEPT
                            !.tier = Some(TierLabel(summoners_leagues_list[current_player],
                                                    match_json.queueId))]
                    ELSE match_json.participants[current_player]]]
    /\ End("ok")
    /\ UNCHANGED << remote, tables, saved_folds, other, lookup, namesake >>

\* The second interaction when it does not run.
NoOther == [pc |-> "idle", matches |-> << >>, summoner_db |-> None, folded |-> << >>]

\* interactions.py:159-184  the fold loop over a whole batch: it stops at the
\* first exception.
RECURSIVE FoldBatch(_, _)
FoldBatch(db, batch) ==
    IF batch = << >> THEN Ok(db)
    ELSE LET o == FoldMatch(db, Head(batch))
         IN  IF o.raised # "" THEN o ELSE FoldBatch(o.db, Tail(batch))

\* The first interaction is not running, or it is suspended in its fan-out
\* (interactions.py:157): the only places where another interaction of the
\* player can take a step.
Suspended == pc \in {"idle", "gather"}

\* views.py:39-53, interactions.py:139-157  the second interaction, from the
\* answer of the listing to its own fan-out: the row is created when there is
\* none, the new ids get rows, the ids to fetch are selected and the Summoner
\* row is loaded.  With nothing selected the interaction ends
\* (interactions.py:186).
other_begin ==
    /\ Suspended
    /\ other.pc = "idle"
    /\ LET rows == IF SummonerRows(Summoner, PlayerName) = {}
                   THEN Append(Summoner, create_user_db(PlayerName))
                   ELSE Summoner
           table == add_matches_to_db(Listing, PlayerName, Match)
           matches == find_summaries_not_in_db(Listing, PlayerName, table)
           row == CHOOSE i \in SummonerRows(rows, PlayerName) : TRUE
       IN  /\ Summoner' = rows
           /\ Match' = table
           /\ other' = IF matches = << >> THEN NoOther
                       ELSE [pc |-> "gather", matches |-> matches,
                             summoner_db |-> Some(rows[row]),
                             folded |-> saved_folds]
    /\ UNCHANGED << remote, pc, matchlist, summoner_db, tasks, match_preview_list,
                    cursor, outcome, folded, saved_folds, fanout_db, match_json,
                    lookup, namesake >>

\* interactions.py:157-186, views.py:55-64  the second interaction, from the
\* return of its fan-out (every request answered 200) to its end: the batch
\* is folded into the object it loaded, the champion map is sorted, the row
\* and the summaries are stored.  An exception of the fold loop ends it with
\* nothing stored.
other_finish ==
    /\ Suspended
    /\ other.pc = "gather"
    /\ LET batch == [i \in 1..Len(other.matches) |->
                        Enrich(RawMatch(other.matches[i], played[other.matches[i]]))]
           o == FoldBatch(other.summoner_db[1], batch)
           row == CHOOSE i \in SummonerRows(Summoner, PlayerName) : TRUE
       IN  IF /\ o.raised = ""
              /\ \A i \in 1..Len(batch) :
                    Cardinality(MatchRows(Match, batch[i].matchId, PlayerName)) = 1
           THEN /\ Summoner' = [Summoner EXCEPT
                                   ![row] = [o.db EXCEPT !.champions = SortChampions(@)]]
                /\ Match' = save_summaries_to_db(batch, PlayerName, Match)
                /\ saved_folds' = other.folded \o other.matches
           ELSE UNCHANGED << tables, saved_folds >>
    /\ other' = NoOther
    /\ UNCHANGED << remote, pc, matchlist, summoner_db, tasks, match_preview_list,
                    cursor, outcome, folded, fanout_db, match_json, lookup, namesake >>

\* ---- the player of the same display name on another server

\* The namesake before it has played: no match, nothing folded.
NoNamesake == [played |-> << >>, folded |-> << >>]

\* The id of the n-th match of the namesake.  An id carries the platform it
\* was played on, so no id of the namesake is an id of the player: the model
\* numbers them after the ids of the player.
NamesakeId(n) == MaxMatches + n

\* The kind of the match of the namesake with this id.
NamesakeKind(m) == namesake.played[m - MaxMatches]

\* get_matchlist for the puuid of the namesake: its ids, most recent first.
NamesakeListing ==
    [i \in 1..Len(namesake.played) |-> NamesakeId(Len(namesake.played) + 1 - i)]

\* The namesake plays a match on its server.
namesake_play(k) ==
    /\ pc = "idle"
    /\ Len(namesake.played) < MaxMatches
    /\ namesake' = [namesake EXCEPT !.played = Append(@, k)]
    /\ UNCHANGED << remote, tables, pc, matchlist, summoner_db, tasks,
                    match_preview_list, cursor, outcome, folded, saved_folds,
                    fanout_db, match_json, other, lookup >>

\* views.py:26-64  user_info(request, server, summoner_name) for the server
\* of the namesake, every request answered 200, from its start to its end.
\* server goes to the remote alone (views.py:35-37, 44): every query of the
\* tables is by summoner_name (views.py:41-42, 45-48, 51, 64), so it reads
\* and writes the rows the interactions of the player read and write.  An
\* empty selection (interactions.py:186) and an exception of the enrichment
\* or of the fold loop end it with the row and the summaries not stored.
namesake_user_info ==
    /\ pc = "idle"
    /\ other.pc = "idle"
    /\ LET rows == IF SummonerRows(Summoner, PlayerName) = {}
                   THEN Append(Summoner, create_user_db(PlayerName))
                   ELSE Summoner
           table == add_matches_to_db(NamesakeListing, PlayerName, Match)
           matches == find_summaries_not_in_db(NamesakeListing, PlayerName, table)
           row == CHOOSE i \in SummonerRows(rows, PlayerName) : TRUE
           bodies == [i \in 1..Len(matches) |->
                         RawMatch(matches[i], NamesakeKind(matches[i]))]
           batch == [i \in 1..Len(bodies) |-> Enrich(bodies[i])]
           o == FoldBatch(rows[row], batch)
       IN  IF /\ matches # << >>
              /\ \A i \in 1..Len(bodies) : EnrichRaises(bodies[i]) = ""
              /\ o.raised = ""
           THEN /\ Summoner' = [rows EXCEPT
                                   ![row] = [o.db EXCEPT !.champions = SortChampions(@)]]
                /\ Match' = save_summaries_to_db(batch, PlayerName, table)
                /\ namesake' = [namesake EXCEPT !.folded = @ \o matches]
           ELSE /\ Summoner' = rows
                /\ Match' = table
                /\ UNCHANGED namesake
    /\ UNCHANGED << remote, pc, matchlist, summoner_db, tasks, match_preview_list,
                    cursor, outcome, folded, saved_folds, fanout_db, match_json,
                    other, lookup >>

\* ------------------------------------------------------------ specifications

NoMatchJson == [queueId |-> 0, participants |-> << >>]

\* Before the first request: the remote has no match of the player yet, and
\* the Summoner table either has no row for the player or holds an empty one.
Init ==
    /\ played = << >>
    /\ budget = MaxThrottled
    /\ Summoner \in {<< >>, << StoredEmptySummoner(PlayerName) >>}
    /\ Match = << >>
    /\ pc = "idle"
    /\ matchlist = << >>
    /\ summoner_db = None
    /\ tasks = << >>
    /\ match_preview_list = << >>
    /\ cursor = 0
    /\ outcome = "none"
    /\ folded = << >>
    /\ saved_folds = << >>
    /\ fanout_db = NoTables
    /\ match_json = NoMatchJson
    /\ other = NoOther
    /\ lookup = NoLookup
    /\ namesake = NoNamesake

FetchStep(headers, statuses) ==
    \E i \in 1..Len(tasks) :
        \/ Request200(i)
        \/ \E header \in headers : Request429(i, header)
        \/ \E status \in statuses : RequestOther(i, status)
        \/ Wake(i)

Next ==
    \/ \E k \in PipelineKinds : PlayMatch(k, MaxMatches)
    \/ user_info_not_found
    \/ user_info_begin
    \/ user_info_select
    \/ FetchStep({<< "1" >>}, {500})
    \/ Tick
    \/ gather_raise
    \/ gather_matches
    \/ fold_match
    \/ user_info_save
    \/ user_info_summaries

Spec == Init /\ [][Next]_vars

\* ---- the fold pass alone: the state gather_matches leaves, for every batch
\* of at most MaxFolds matches of every kind, most recent first

\* The rows add_matches_to_db has created for the ids n..1, none fetched yet.
EmptyRows(n) ==
    [i \in 1..n |-> [match_id |-> n + 1 - i, summoner |-> PlayerName,
                     summary_json |-> None]]

\* The list gather returns for the ids n..1 when the games are of kinds.
Previews(kinds) ==
    [i \in 1..Len(kinds) |->
        Enrich(RawMatch(Len(kinds) + 1 - i, kinds[Len(kinds) + 1 - i]))]

FoldInit ==
    \E n \in 1..MaxFolds :
    \E kinds \in [1..n -> 1..NKinds] :
    \E row \in {create_user_db(PlayerName), StoredEmptySummoner(PlayerName)} :
        /\ played = kinds
        /\ budget = 0
        /\ Summoner = << row >>
        /\ Match = EmptyRows(n)
        /\ pc = "fold"
        /\ matchlist = [i \in 1..n |-> n + 1 - i]
        /\ summoner_db = Some(row)
        /\ tasks = [i \in 1..n |->
                      [NewTask("match", n + 1 - i) EXCEPT
                          !.requests = 1, !.last = 200, !.st = "returned",
                          !.region = get_region_by_platform(PlatformOfKind(kinds[n])).value,
                          !.perks_requests =
                              PerksRequests(RawMatch(n + 1 - i, kinds[n + 1 - i])),
                          !.result = Some(Previews(kinds)[i])]]
        /\ match_preview_list = Previews(kinds)
        /\ cursor = 1
        /\ outcome = "running"
        /\ folded = << >>
        /\ saved_folds = << >>
        /\ fanout_db = [Summoner |-> << row >>, Match |-> EmptyRows(n)]
        /\ match_json = NoMatchJson
        /\ other = NoOther
        /\ lookup = NoLookup
        /\ namesake = NoNamesake

FoldNext ==
    \/ fold_match
    \/ user_info_save
    \/ user_info_summaries

FoldSpec == FoldInit /\ [][FoldNext]_vars

\* ---- a long history on one role: the player wins up to MaxWins matches,
\* then loses up to MaxLosses, and loads the profile after each of them

\* The next match is played once every match played so far is enriched.
PlayNext ==
    /\ \A m \in 1..Len(played) :
          /\ MatchRows(Match, m, PlayerName) # {}
          /\ \A i \in MatchRows(Match, m, PlayerName) : Match[i].summary_json # None
    /\ \/ /\ \A m \in 1..Len(played) : played[m] = 1
          /\ Len(played) < MaxWins
          /\ PlayMatch(1, MaxWins + MaxLosses)
       \/ /\ Cardinality({m \in 1..Len(played) : played[m] = 2}) < MaxLosses
          /\ PlayMatch(2, MaxWins + MaxLosses)

HistoryNext ==
    \/ PlayNext
    \/ user_info_begin
    \/ user_info_select
    \/ \E i \in 1..Len(tasks) : Request200(i)
    \/ gather_matches
    \/ fold_match
    \/ user_info_save
    \/ user_info_summaries

HistorySpec == Init /\ [][HistoryNext]_vars

\* Two interactions of one player, run by two workers with no lock between
\* them (views.py:26-80 opens no transaction): each may take a step when the
\* other one is suspended in its fan-out or is not running.  Every request is
\* answered 200.
ConcurrentKinds == {1, 2}

ConcurrentNext ==
    \/ \E k \in ConcurrentKinds : PlayMatch(k, MaxMatches)
    \/ user_info_begin
    \/ user_info_select
    \/ \E i \in 1..Len(tasks) : Request200(i)
    \/ gather_matches
    \/ fold_match
    \/ user_info_save
    \/ user_info_summaries
    \/ other_begin
    \/ other_finish

ConcurrentSpec == Init /\ [][ConcurrentNext]_vars

\* Repeated interactions of a player whose row is stored, against a remote
\* that answers every request 200: the profile is visited again and again
\* (some step is taken whenever one can be).
LiveInit == Init /\ Summoner # << >>

LiveNext ==
    \/ \E k \in PipelineKinds : PlayMatch(k, MaxMatches)
    \/ user_info_begin
    \/ user_info_select
    \/ \E i \in 1..Len(tasks) : Request200(i)
    \/ gather_matches
    \/ fold_match
    \/ user_info_save
    \/ user_info_summaries

LiveSpec == LiveInit /\ [][LiveNext]_vars /\ WF_vars(LiveNext)

\* ---- two players of one display name, each on its server, visit their
\* profiles in turn against a remote that answers every request 200.
IdentityNext ==
    \/ \E k \in PipelineKinds : PlayMatch(k, MaxMatches)
    \/ user_info_begin
    \/ user_info_select
    \/ \E i \in 1..Len(tasks) : Request200(i)
    \/ gather_matches
    \/ fold_match
    \/ user_info_save
    \/ user_info_summaries
    \/ \E k \in PipelineKinds : namesake_play(k)
    \/ namesake_user_info

IdentitySpec == Init /\ [][IdentityNext]_vars

\* The resolvers on their own: each is called with every code of a bounded
\* set, codes it knows and codes it does not.
SpellKeys == 0..MaxSpellKey

QueueIds == {0, 2000} \cup 400..(400 + MaxQueueSpan)

PrimaryRunes == {8005, 8112, 8128, 5008, 0}

RuneStyles == {8000, 8100, 8200, 8300, 8400, 0}

Platforms == {"NA1", "BR1", "LA1", "LA2", "OC1", "EUN1", "EUW1", "TR1", "RU",
              "KR", "JP1", "PH2", "SG2", "euw1"}

Resolve(resolver, argument, answer) ==
    /\ lookup' = [resolver |-> resolver, argument |-> argument, answer |-> answer]
    /\ UNCHANGED << remote, tables, pc, matchlist, summoner_db, tasks,
                    match_preview_list, cursor, outcome, folded, saved_folds,
                    fanout_db, match_json, other, namesake >>

ResolveNext ==
    \/ \E key \in SpellKeys :
          Resolve("get_summoner_spell", key, get_summoner_spell(key))
    \/ \E queue_id \in QueueIds :
          Resolve("get_match_mode", queue_id, get_match_mode(queue_id))
    \/ \E rune_id \in PrimaryRunes :
          Resolve("get_rune_primary", rune_id, get_rune_primary(rune_id, PerksJson))
    \/ \E rune_id \in RuneStyles :
          Resolve("get_rune_secondary", rune_id, get_rune_secondary(rune_id))
    \/ \E platform \in Platforms :
          Resolve("get_region_by_platform", platform, get_region_by_platform(platform))

ResolveSpec == Init /\ [][ResolveNext]_vars

\* ---- the fan-out alone: a batch of at most MaxBatch match fetches about to
\* be launched, or the rank fetches of a cached match, against a remote
\* that may refuse every fetch with any header and status

\* The kind of the m-th match played: a ranked flex game, then a custom one.
FetchedKind(m) == IF m % 2 = 1 THEN 9 ELSE 6

FetchInit ==
    \E n \in 1..MaxBatch :
    \E kinds \in {[m \in 1..n |-> FetchedKind(m)]} :
        /\ played = kinds
        /\ budget = MaxThrottled
        /\ Summoner = << StoredEmptySummoner(PlayerName) >>
        /\ \/ /\ Match = EmptyRows(n)
              /\ pc = "select"
              /\ matchlist = [i \in 1..n |-> n + 1 - i]
              /\ outcome = "running"
           \/ /\ Match = [i \in 1..n |-> [EmptyRows(n)[i] EXCEPT
                                             !.summary_json = Some(Previews(kinds)[i])]]
              /\ pc = "idle"
              /\ matchlist = << >>
              /\ outcome = "ok"
        /\ summoner_db = None
        /\ tasks = << >>
        /\ match_preview_list = << >>
        /\ cursor = 0
        /\ folded = << >>
        /\ saved_folds = << >>
        /\ fanout_db = NoTables
        /\ match_json = NoMatchJson
        /\ other = NoOther
        /\ lookup = NoLookup
        /\ namesake = NoNamesake

FetchNext ==
    \/ user_info_select
    \/ \E m \in 1..Len(played) : get_match_data(m)
    \/ FetchStep(RetryAfterHeaders, OtherStatuses)
    \/ Tick
    \/ gather_raise
    \/ gather_matches
    \/ gather_ranks

FetchSpec == FetchInit /\ [][FetchNext]_vars

\* ---- the pipeline against a remote that answers every request with 200,
\* with a listing of up to MaxListing matches

\* The kind of the m-th match played.
ListedKind(m) == IF m % 3 = 0 THEN 4 ELSE IF m % 3 = 1 THEN 1 ELSE 3

PagingNext ==
    \/ PlayMatch(ListedKind(Len(played) + 1), MaxListing)
    \/ user_info_not_found
    \/ user_info_begin
    \/ user_info_select
    \/ \E i \in 1..Len(tasks) : Request200(i)
    \/ gather_matches
    \/ fold_match
    \/ user_info_save
    \/ user_info_summaries

PagingSpec == Init /\ [][PagingNext]_vars

\* ------------------------------------------------------------ properties

\* The game of match id m, as the remote holds it.
GameOf(m) == Kind(played[m])

\* A game that moves the counters: CLASSIC, with a role.
CountedGame(m) ==
    GameOf(m).gameMode = "CLASSIC" /\ GameOf(m).participant.teamPosition # ""

RECURSIVE SumSeq(_)
SumSeq(values) ==
    IF values = << >> THEN 0 ELSE Head(values) + SumSeq(Tail(values))

\* The count of a role bucket, whatever the case of its field.
RoleNum(role) == IF "num" \in DOMAIN role THEN role.num ELSE role.NUM

RECURSIVE SumOfNums(_, _)
SumOfNums(roles, keys) ==
    IF keys = {} THEN 0
    ELSE LET k == CHOOSE x \in keys : TRUE
         IN  RoleNum(roles[k]) + SumOfNums(roles, keys \ {k})

\* The matches folded into the object in memory, and into the stored row.
FoldedInMemory == SelectSeq(folded, CountedGame)

FoldedInStore == SelectSeq(saved_folds, CountedGame)

\* C8: a fold of a match that is not CLASSIC, or in which the requester has no
\* role, leaves every field of AggregateStats as it was: the object in memory
\* is the same after the iteration (or dropped, when the iteration raises) and
\* the stored row is not written.
C8_UncountedFoldChangesNothing ==
    [][ (/\ pc = "fold"
         /\ LET info == match_preview_list[cursor].info
            IN  info.gameMode # "CLASSIC" \/ info.participant.teamPosition = "")
        => (/\ summoner_db' \in {summoner_db, None}
            /\ Summoner' = Summoner) ]_vars

\* An ARAM match with a role has been folded into an object whose counters
\* earlier folds had moved.
C8_Witness ==
    /\ pc \in {"fold", "save"}
    /\ cursor > 1
    /\ match_preview_list[cursor - 1].info.gameMode # "CLASSIC"
    /\ match_preview_list[cursor - 1].info.participant.teamPosition # ""
    /\ match_preview_list[cursor - 1].player_summary # None
    /\ summoner_db # None
    /\ summoner_db[1].matches > 0

\* C9: starting from an empty AggregateStats, after any sequence of folds the
\* match count equals the sum of the counts of the role buckets, in the object
\* in memory and in every stored row.
C9_MatchesIsSumOfRoles ==
    /\ summoner_db # None =>
          summoner_db[1].matches =
              SumOfNums(summoner_db[1].roles, DOMAIN summoner_db[1].roles)
    /\ \A i \in 1..Len(Summoner) :
          Summoner[i].matches = SumOfNums(Summoner[i].roles, DOMAIN Summoner[i].roles)

\* Folds have counted matches in two different roles, one of them lost.
C9_Witness ==
    /\ summoner_db # None
    /\ summoner_db[1].matches >= 2
    /\ Cardinality({k \in DOMAIN summoner_db[1].roles :
                       RoleNum(summoner_db[1].roles[k]) > 0}) >= 2
    /\ \E k \in DOMAIN summoner_db[1].roles : summoner_db[1].roles[k].losses > 0

\* The totals of db are the sums over the matches ids.
TotalsAre(db, ids) ==
    LET p(i) == GameOf(ids[i]).participant
        n == Len(ids)
    IN  /\ db.stats.kills.total = SumSeq([i \in 1..n |-> p(i).kills])
        /\ db.stats.deaths.total = SumSeq([i \in 1..n |-> p(i).deaths])
        /\ db.stats.assists.total = SumSeq([i \in 1..n |-> p(i).assists])
        /\ db.stats.minions.total =
              SumSeq([i \in 1..n |-> p(i).totalMinionsKilled + p(i).neutralMinionsKilled])
        /\ db.stats.vision.total = SumSeq([i \in 1..n |-> p(i).visionScore])
        /\ db.minutes =
              SumSeq([i \in 1..n |-> RoundHalfEven(GameOf(ids[i]).gameDuration, 60)])

\* C10: each tracked total (kills, deaths, assists, minions = lane + neutral,
\* vision) equals the sum of that value over the folded matches, and the
\* minutes equal the sum of the per-match minutes, each rounded.
C10_TotalsAreSums ==
    /\ summoner_db # None => TotalsAre(summoner_db[1], FoldedInMemory)
    /\ \A i \in 1..Len(Summoner) : TotalsAre(Summoner[i], FoldedInStore)

\* Two counted matches have been folded and stored, one with neutral
\* minions and one whose minutes round half to even (1530 s: 26).
C10_Witness ==
    /\ pc = "summaries"
    /\ Len(FoldedInStore) >= 2
    /\ \E i \in 1..Len(FoldedInStore) :
          GameOf(FoldedInStore[i]).participant.neutralMinionsKilled > 0
    /\ \E i \in 1..Len(FoldedInStore) : GameOf(FoldedInStore[i]).gameDuration = 1530
    /\ Summoner[1].stats.minions.total > 0

\* The value a fetch returns on a 200: the body, enriched for a match.
ResultOn200(task) ==
    IF task.kind = "match" THEN Enrich(RawMatch(task.key, played[task.key]))
    ELSE LeaguesOf(task.key)

\* C2: a fetch whose first k responses (k = 1 or 2) are 429 with a Retry-After
\* header and whose response k + 1 is 200 returns the body of the 200 after
\* exactly k suspensions, each of the duration its Retry-After header names and
\* each over in full before the next request is issued.
C2_BackoffThenBody ==
    \A i \in 1..Len(tasks) :
        LET t == tasks[i]
        IN  /\ (t.st = "returned" /\ t.throttles \in {1, 2}
                   /\ t.requests = t.throttles + 1)
               => /\ t.result = Some(ResultOn200(t))
                  /\ Len(t.naps) = t.throttles
                  /\ \A j \in 1..Len(t.naps) :
                        /\ t.naps[j].slept = ParseInt(t.naps[j].header)
                        /\ t.naps[j].waited = t.naps[j].slept
            /\ \A j \in 1..Len(t.naps) :
                  (j = Len(t.naps) /\ t.st = "sleeping")
                  \/ t.naps[j].waited = ParseInt(t.naps[j].header)

\* A fetch has returned after two 429s with different Retry-After headers.
C2_Witness ==
    \E i \in 1..Len(tasks) :
        /\ tasks[i].st = "returned"
        /\ tasks[i].throttles = 2
        /\ tasks[i].requests = 3
        /\ tasks[i].naps[1].header # tasks[i].naps[2].header

\* C3: whatever the remote answers, a fetch issues at most 3 requests and
\* issues none after the third; when its three responses are 429 it raises
\* and returns no result.
C3_AtMostThreeRequests ==
    \A i \in 1..Len(tasks) :
        LET t == tasks[i]
        IN  /\ t.requests <= 3
            /\ t.requests = 3 => t.st # "ready"
            /\ t.throttles = 3 => (t.st \in {"sleeping", "raised"} /\ t.result = None)
            /\ t.st = "raised" => (t.requests = 3 /\ t.result = None)

\* A fetch has raised after three 429s.
C3_Witness ==
    \E i \in 1..Len(tasks) :
        /\ tasks[i].st = "raised"
        /\ tasks[i].throttles = 3
        /\ Len(tasks[i].naps) = 3

\* C5: for every batch and every interleaving of its fetches, the i-th
\* element of the list gather returns is the result of the i-th id submitted:
\* the i-th selected match id for the match fetches, and the summoner id of
\* the i-th participant for the rank fetches.
C5_ResultsInSubmissionOrder ==
    /\ pc = "fold" =>
          LET submitted == find_summaries_not_in_db(matchlist, PlayerName, Match)
          IN  /\ Len(match_preview_list) = Len(submitted)
              /\ \A i \in 1..Len(submitted) :
                    match_preview_list[i] =
                        Enrich(RawMatch(submitted[i], played[submitted[i]]))
    /\ \A p \in 1..Len(match_json.participants) :
          LET q == match_json.participants[p]
          IN  q.tier # None =>
                 q.tier = Some(TierLabel(LeaguesOf(q.summonerId), match_json.queueId))

\* gather has returned a batch of two whose first fetch was suspended and
\* whose second was not.
C5_Witness ==
    /\ pc = "fold"
    /\ Len(match_preview_list) >= 2
    /\ tasks[1].naps # << >>
    /\ tasks[2].naps = << >>
    /\ match_preview_list[1] # match_preview_list[2]

\* The positions of the listing whose id is not enriched yet: no row of the
\* id holds a payload.
Unenriched ==
    {q \in 1..Len(matchlist) :
        \A i \in MatchRows(Match, matchlist[q], PlayerName) :
            Match[i].summary_json = None}

\* C7: an interaction selects at most 7 ids to fetch, and they are exactly the
\* first not-yet-enriched ids of the listing, in the order of the listing.
C7_FirstSevenUnenriched ==
    pc = "gather" =>
        LET k == IF Cardinality(Unenriched) < 7 THEN Cardinality(Unenriched) ELSE 7
            Rank(q) == Cardinality({u \in Unenriched : u <= q})
        IN  /\ Len(tasks) <= 7
            /\ Len(tasks) = k
            /\ \A q \in Unenriched :
                  Rank(q) <= k => tasks[Rank(q)].key = matchlist[q]

\* Seven ids are selected from a listing that holds more unenriched ones.
C7_Witness ==
    /\ pc = "gather"
    /\ Len(tasks) = 7
    /\ Cardinality(Unenriched) > 7

NoDuplicates(s) == \A i, j \in 1..Len(s) : i # j => s[i] # s[j]

\* Every row of match id m holds a payload, and there is one.
Enriched(m) ==
    /\ MatchRows(Match, m, PlayerName) # {}
    /\ \A i \in MatchRows(Match, m, PlayerName) : Match[i].summary_json # None

\* C1: over any sequence of user_info interactions, each of which completes
\* or aborts, every match id is folded into AggregateStats at most once; once
\* the interaction that folded it is over, the match has a non-empty cache
\* entry and find_summaries_not_in_db does not select it again: no later
\* fan-out holds a task for it.
C1_FoldedAtMostOnce ==
    /\ NoDuplicates(saved_folds)
    /\ NoDuplicates(folded)
    /\ pc = "idle" =>
          \A j \in 1..Len(saved_folds) :
              /\ Enriched(saved_folds[j])
              /\ \A i \in 1..Len(find_summaries_not_in_db(Listing, PlayerName, Match)) :
                    find_summaries_not_in_db(Listing, PlayerName, Match)[i]
                        # saved_folds[j]
    /\ pc \in {"gather", "fold", "save"} =>
          \A i \in 1..Len(tasks) :
              tasks[i].kind = "match" =>
                  \A j \in 1..Len(saved_folds) : tasks[i].key # saved_folds[j]

\* Two interactions have completed, each folding one counted match.
C1_Witness ==
    /\ pc = "idle"
    /\ outcome = "ok"
    /\ saved_folds = << 1, 2 >>
    /\ Len(Summoner) = 1
    /\ Summoner[1].matches = 2

\* C4: when a match fetch of a batch exhausts its attempts, gather raises
\* and get_match_preview_list returns no partial result: the handler ends with
\* the exception, and the stored tables are what they were before the fan-out.
C4_NoPartialResults ==
    [][ (pc = "gather" /\ \E i \in 1..Len(tasks) : tasks[i].st = "raised")
        => (/\ pc' = "idle"
            /\ outcome' = "Exception"
            /\ match_preview_list' = << >>
            /\ Summoner' = fanout_db.Summoner
            /\ Match' = fanout_db.Match
            /\ saved_folds' = saved_folds) ]_vars

\* A fetch of a batch has exhausted its attempts after another one returned.
C4_Witness ==
    /\ pc = "gather"
    /\ \E i \in 1..Len(tasks) : tasks[i].st = "raised" /\ tasks[i].requests = 3
    /\ \E i \in 1..Len(tasks) : tasks[i].st = "returned"

\* C6: a match fetch is issued only for an id whose cache entry exists with an
\* empty payload.
C6_FetchOnlyEmptyEntries ==
    \A i \in 1..Len(tasks) :
        (tasks[i].kind = "match" /\ tasks[i].requests > 0) =>
            /\ MatchRows(Match, tasks[i].key, PlayerName) # {}
            /\ \A r \in MatchRows(Match, tasks[i].key, PlayerName) :
                  Match[r].summary_json = None

\* A fetch is issued while the listing holds an id that is enriched already.
C6_Witness ==
    /\ pc = "gather"
    /\ \E i \in 1..Len(tasks) : tasks[i].kind = "match" /\ tasks[i].requests > 0
    /\ \E q \in 1..Len(matchlist) : Enriched(matchlist[q])

\* h hundredths is n / d rounded to 2 decimals: no multiple of 1/100 is nearer.
IsRounded2(h, n, d) ==
    LET diff == 100 * n - h * d
    IN  2 * (IF diff < 0 THEN -diff ELSE diff) <= d

\* The rates of db are those of its current totals.
RatesAreCurrent(db) ==
    db.matches > 0 =>
        /\ db.minutes > 0
        /\ \A name \in StatNames :
              /\ IsRounded2(db.stats[name].per_min, db.stats[name].total, db.minutes)
              /\ IsRounded2(db.stats[name].per_match, db.stats[name].total, db.matches)

\* C11: after every fold, for each of the five tracked stats, per_min is the
\* current total over the current minutes and per_match the current total
\* over the current matches, each rounded to 2 decimals: a function of the
\* current totals alone.
C11_RatesOfCurrentTotals ==
    /\ summoner_db # None => RatesAreCurrent(summoner_db[1])
    /\ \A i \in 1..Len(Summoner) : RatesAreCurrent(Summoner[i])

\* Two counted matches are folded and a rate of the second fold is a rounded
\* quotient that differs from the rate the first fold left.
C11_Witness ==
    /\ summoner_db # None
    /\ summoner_db[1].matches >= 2
    /\ (100 * summoner_db[1].stats.kills.total) % summoner_db[1].minutes # 0
    /\ (100 * summoner_db[1].stats.kills.total) % summoner_db[1].matches # 0

\* The play rates of db are those of its current counts.
PlayRatesAreCurrent(db) ==
    \A i \in 1..Len(db.champions) :
        LET c == db.champions[i].data
        IN  /\ (100 * c.play_rate.n) % c.play_rate.d = 0
            /\ IsRounded2((100 * c.play_rate.n) \div c.play_rate.d, c.num, db.matches)

\* C12: after any sequence of folds, the play_rate of every champion of the
\* map, not only of the champion of the last folded match, is its count over
\* the current matches, rounded to 2 decimals.
C12_PlayRateOfEveryChampion ==
    /\ summoner_db # None => PlayRatesAreCurrent(summoner_db[1])
    /\ \A i \in 1..Len(Summoner) : PlayRatesAreCurrent(Summoner[i])

\* The win rates of the role buckets of db are the integer percents of
\* their wins over their counts.
RoleWinRatesAreFloors(db) ==
    \A k \in DOMAIN db.roles :
        ("num" \in DOMAIN db.roles[k] /\ db.roles[k].num > 0) =>
            db.roles[k].win_rate = (100 * db.roles[k].wins) \div db.roles[k].num

\* C13: after every fold into a role bucket, the win_rate of the bucket is
\* the integer percent of its wins over its count, the floor of
\* 100 * wins / count (3 wins and 2 losses: count 5, win_rate 60).
C13_RoleWinRateIsFloor ==
    /\ summoner_db # None => RoleWinRatesAreFloors(summoner_db[1])
    /\ \A i \in 1..Len(Summoner) : RoleWinRatesAreFloors(Summoner[i])

\* The KDA of a summary without deaths is kills + assists (in hundredths).
DeathlessKda(match) ==
    (match.info.queueId \notin UnscoredQueues
        /\ match.info.participant.deaths = 0) =>
        /\ match.player_summary # None
        /\ match.player_summary[1].kda =
              100 * (match.info.participant.kills + match.info.participant.assists)

\* The KDA of every champion of db without deaths is its kills + assists.
DeathlessChampions(db) ==
    \A i \in 1..Len(db.champions) :
        LET c == db.champions[i].data
        IN  c.deaths = 0 => c.kda = 100 * (c.kills + c.assists)

\* C14: for every enriched match in which the requester has no deaths, the
\* KDA of the requester is kills + assists exactly and the enrichment raises
\* nothing; the same holds for a champion whose accumulated deaths are 0.
C14_DeathlessKda ==
    /\ \A i \in 1..Len(match_preview_list) : DeathlessKda(match_preview_list[i])
    /\ \A i \in 1..Len(Match) :
          Match[i].summary_json # None => DeathlessKda(Match[i].summary_json[1])
    /\ summoner_db # None => DeathlessChampions(summoner_db[1])
    /\ \A i \in 1..Len(Summoner) : DeathlessChampions(Summoner[i])

\* Two matches without deaths on one champion are folded and stored.
C14_Witness ==
    /\ pc = "summaries"
    /\ \E i \in 1..Len(Summoner[1].champions) :
          /\ Summoner[1].champions[i].data.deaths = 0
          /\ Summoner[1].champions[i].data.num >= 2
          /\ Summoner[1].champions[i].data.kda = 1200
    /\ \E i \in 1..Len(match_preview_list) :
          /\ match_preview_list[i].info.participant.deaths = 0
          /\ match_preview_list[i].player_summary # None

\* C15: a fetch the remote answers with 404 returns a tagged not-found
\* outcome instead of raising, and does not issue the request again: the 404
\* ends the fetch with a value.
C15_NotFoundIsAnOutcome ==
    \A i \in 1..Len(tasks) :
        tasks[i].last = 404 =>
            /\ tasks[i].st = "returned"
            /\ tasks[i].result # None
            /\ tasks[i].error = ""

\* C16: a fetch the remote answers with a status other than 200, 404 and 429
\* fails at once, without issuing the request again, with an error that is
\* not the one of a fetch that exhausted its attempts on 429s.
C16_RemoteErrorIsFatal ==
    \A i \in 1..Len(tasks) :
        tasks[i].last \notin {0, 200, 404, 429} =>
            /\ tasks[i].st = "raised"
            /\ tasks[i].error # MaxedOut

\* C17: a fetched match whose queue id is 0, 2000, 2010 or 2020 is filtered
\* out: it has no player summary, its turn in the fold loop moves no counter
\* of AggregateStats, and the loop goes on to the other matches of the batch
\* and the interaction completes.
C17_UnscoredMatchIsSkipped ==
    [][ (pc = "fold"
            /\ match_preview_list[cursor].info.queueId \in {0, 2000, 2010, 2020})
        => (/\ match_preview_list[cursor].player_summary = None
            /\ summoner_db' = summoner_db
            /\ pc' \in {"fold", "save"}) ]_vars

\* No match id is selected, and so folded, by both interactions.
NoIdFoldedByBoth ==
    (pc \in {"gather", "fold", "save"} /\ other.pc = "gather")
       => \A i \in 1..Len(tasks), j \in 1..Len(other.matches) :
             tasks[i].key # other.matches[j]

\* Once both interactions are over, every counted match with a stored summary
\* is folded into the stored row.
NoFoldIsLost ==
    (pc = "idle" /\ other.pc = "idle")
       => \A m \in 1..Len(played) :
             (Enriched(m) /\ CountedGame(m))
                => \E i \in 1..Len(saved_folds) : saved_folds[i] = m

\* C18: when two interactions of one player run concurrently, interleaved at
\* their remote-call suspension points, the AggregateStats record has a single
\* owner: no match id is folded by both interactions, and no fold of one
\* interaction is lost when the other stores the record.
C18_SingleOwnerOfTheRecord == NoIdFoldedByBoth /\ NoFoldIsLost

\* The champion maps hold the same champions with the same values.
SameChampions(before, after) ==
    /\ Len(before) = Len(after)
    /\ NoDuplicates([i \in 1..Len(after) |-> after[i].name])
    /\ {before[i] : i \in 1..Len(before)} = {after[i] : i \in 1..Len(after)}

\* Lexicographic order of the triples (count, win_rate, kda).
LexAtLeast(a, b) ==
    \/ a[1] > b[1]
    \/ a[1] = b[1] /\ a[2] > b[2]
    \/ a[1] = b[1] /\ a[2] = b[2] /\ a[3] >= b[3]

Descending(champions) ==
    \A i, j \in 1..Len(champions) :
        i < j => LexAtLeast(<< champions[i].data.num, champions[i].data.win_rate,
                                champions[i].data.kda >>,
                             << champions[j].data.num, champions[j].data.win_rate,
                                champions[j].data.kda >>)

\* C19: after the fold pass, the champion map that is stored holds exactly
\* the champions and values of the map before the sort, and is ordered by
\* (count, win_rate, kda), lexicographically, descending.
C19_SortKeepsAndOrders ==
    [][ pc = "save"
          => \A i \in SummonerRows(Summoner, PlayerName) :
                /\ SameChampions(summoner_db[1].champions, Summoner'[i].champions)
                /\ Descending(Summoner'[i].champions) ]_vars

\* A row is stored with two champions of equal count, and the sort has moved
\* the champion of the first folded match away from the head of the map.
C19_Witness ==
    /\ pc = "summaries"
    /\ FoldedInStore # << >>
    /\ Len(Summoner[1].champions) >= 2
    /\ Summoner[1].champions[1].data.num = Summoner[1].champions[2].data.num
    /\ Summoner[1].champions[1].name
          # GameOf(FoldedInStore[1]).participant.championName

\* C20: every enrichment resolver (summoner-spell key, queue id, primary-rune
\* id, secondary-rune style id, platform to region) returns a defined value
\* for every input, a code it does not know included: it never raises.
C20_ResolversAreTotal ==
    lookup.resolver # "" => lookup.answer.raised = ""

\* The GETs of the perks listing issued so far by the fetches of the fan-out.
PerksLookups == SumSeq([i \in 1..Len(tasks) |-> tasks[i].perks_requests])

\* C21: across any sequence of primary-rune resolutions in one process, at
\* most one remote lookup of the perks table is issued: every resolution
\* after the first is answered from the cached table.
C21_OnePerksLookup == PerksLookups <= 1

\* The enriched matches the state holds: results of the fan-out, the batch
\* being folded, the stored summaries.
EnrichedMatches ==
    {tasks[i].result[1] : i \in {j \in 1..Len(tasks) :
                                    tasks[j].kind = "match" /\ tasks[j].result # None}}
    \cup {match_preview_list[i] : i \in 1..Len(match_preview_list)}
    \cup {Match[i].summary_json[1] : i \in {j \in 1..Len(Match) :
                                               Match[j].summary_json # None}}

\* C22: for every enriched match, the requester's item list has exactly 7
\* entries, in the order item0, item1, item2, item6, item3, item4, item5: the
\* seven slots, the trinket (slot 6) fourth.
C22_TrinketFourth ==
    \A match \in EnrichedMatches :
        match.player_summary # None =>
            LET summary == match.player_summary[1]
                raw == GameOf(match.matchId).participant
            IN  /\ Len(summary.items) = 7
                /\ summary.items[1] = raw.item0
                /\ summary.items[2] = raw.item1
                /\ summary.items[3] = raw.item2
                /\ summary.items[4] = raw.item6
                /\ summary.items[5] = raw.item3
                /\ summary.items[6] = raw.item4
                /\ summary.items[7] = raw.item5

\* A summary is stored whose fourth item is the trinket and whose slot 3 holds
\* another item.
C22_Witness ==
    \E i \in 1..Len(Match) :
        /\ Match[i].summary_json # None
        /\ Match[i].summary_json[1].player_summary # None
        /\ LET summary == Match[i].summary_json[1].player_summary[1]
           IN  /\ summary.items[4] = summary.participant.item6
               /\ summary.participant.item3 # summary.participant.item6
               /\ summary.participant.item6 # 0

\* C23: for every enriched match with participants P0..P9 in the order the
\* remote returned them, the matchup list has exactly 5 entries and entry i
\* is (P[i], P[i + 5]) for i in 0..4: the participants are not sorted again
\* before they are paired.
C23_MatchupsPairAcrossTeams ==
    \A match \in EnrichedMatches :
        match.player_summary # None =>
            LET P == GameOf(match.matchId).participants
            IN  /\ Len(P) = 10
                /\ Len(match.info.matchups) = 5
                /\ \A i \in 0..4 :
                      match.info.matchups[i + 1] = << P[i + 1], P[i + 6] >>
                /\ match.info.participants = P

\* A summary is stored whose third matchup pairs the third participant of
\* the remote's list with the eighth, and the list is not in the order of the
\* champion ids.
C23_Witness ==
    \E i \in 1..Len(Match) :
        /\ Match[i].summary_json # None
        /\ Match[i].summary_json[1].player_summary # None
        /\ LET info == Match[i].summary_json[1].info
           IN  /\ info.matchups[3][1].participantId = 3
               /\ info.matchups[3][2].participantId = 8
               /\ info.participants[1].championId > info.participants[2].championId

\* C24: the tier label written on participant i of a match passed to
\* get_players_ranks comes from the rank entries fetched for participant i's
\* own summoner id: "TIER DIVISION" when there is an entry of the relevant
\* queue type (flex when the queue id of the match is 440, solo otherwise),
\* and "Unranked" with no division when there is none.
C24_OwnTierLabel ==
    \A p \in 1..Len(match_json.participants) :
        match_json.participants[p].tier # None =>
            LET label == match_json.participants[p].tier[1]
                entries == LeaguesOf(match_json.participants[p].summonerId)
                relevant == IF match_json.queueId = 440 THEN "RANKED_FLEX_SR"
                            ELSE "RANKED_SOLO_5x5"
                own == {i \in 1..Len(entries) : entries[i].queueType = relevant}
            IN  IF own = {} THEN label = << "Unranked" >>
                ELSE \E i \in own : label = << entries[i].tier, entries[i].rank >>

\* The ranks of a flex match have been written: a participant with a flex and
\* a solo entry carries the flex one, and the ranks of another match left a
\* participant without a solo entry Unranked.
C24_Witness ==
    /\ pc = "idle"
    /\ outcome = "ok"
    /\ match_json.queueId = 440
    /\ \E p \in 1..Len(match_json.participants) :
          /\ Len(LeaguesOf(match_json.participants[p].summonerId)) = 2
          /\ match_json.participants[p].tier = Some(<< "IRON", "IV" >>)
    /\ \A p \in 1..Len(match_json.participants) :
          match_json.participants[p].tier # None

\* C25: get_region_by_platform maps NA1, BR1, LA1, LA2, OC1 to AMERICAS,
\* EUN1, EUW1, TR1, RU to EUROPE and KR, JP1 to ASIA; and every match id of
\* a batch is fetched from the region of the platform prefix of the first
\* match id of that batch.
C25_RegionOfFirstId ==
    /\ \A platform \in {"NA1", "BR1", "LA1", "LA2", "OC1"} :
          get_region_by_platform(platform) = Returns("AMERICAS")
    /\ \A platform \in {"EUN1", "EUW1", "TR1", "RU"} :
          get_region_by_platform(platform) = Returns("EUROPE")
    /\ \A platform \in {"KR", "JP1"} :
          get_region_by_platform(platform) = Returns("ASIA")
    /\ pc \in {"gather", "fold", "save", "summaries"} =>
          \A i \in 1..Len(tasks) :
              tasks[i].kind = "match" =>
                  tasks[i].region =
                      (CASE PlatformOfKind(played[tasks[1].key]) = "NA1" -> "AMERICAS"
                         [] PlatformOfKind(played[tasks[1].key]) = "EUW1" -> "EUROPE"
                         [] PlatformOfKind(played[tasks[1].key]) = "KR" -> "ASIA")

\* A batch of two ids is being fetched whose first id is of a platform of the
\* Americas and whose second id is of a European one.
C25_Witness ==
    /\ pc = "gather"
    /\ Len(tasks) = 2
    /\ MatchId(tasks[1].key).platform = "NA1"
    /\ MatchId(tasks[2].key).platform = "EUW1"
    /\ tasks[2].st = "returned"
    /\ tasks[2].region = "AMERICAS"

\* The counted matches folded into the object in memory with a champion.
FoldedWith(name) ==
    {FoldedInMemory[j] : j \in {k \in 1..Len(FoldedInMemory) :
          GameOf(FoldedInMemory[k]).participant.championName = name}}

\* C26: the matches of a batch are folded in an order that coincides with
\* recency: after the fold pass of an interaction, the last_played of each
\* champion is the date of the newest folded match played with it.
C26_LastPlayedIsNewest ==
    (pc \in {"save", "summaries"} /\ summoner_db # None) =>
        \A i \in 1..Len(summoner_db[1].champions) :
            LET champion == summoner_db[1].champions[i]
                ids == FoldedWith(champion.name)
                newest == CHOOSE m \in ids : \A n \in ids : n <= m
            IN  ids # {} =>
                    champion.data.last_played =
                        get_date_by_timestamp(RawMatch(newest, played[newest]).gameCreation)

\* C27: when find_summaries_not_in_db selects nothing (every match of the
\* window is enriched already), get_match_preview_list returns the
\* AggregateStats unchanged with an empty summary list, no remote call is
\* issued, and the interaction goes on to its end without an error.
C27_NothingToEnrich ==
    [][ (pc = "select"
            /\ find_summaries_not_in_db(matchlist, PlayerName, Match) = << >>)
        => (/\ tasks' = << >>
            /\ match_preview_list' = << >>
            /\ Summoner' = Summoner
            /\ outcome' \in {"running", "ok"}) ]_vars

\* C28: if every remote call answers 200, then under repeated interactions
\* of one player every match id of the listed window eventually gets a
\* non-empty cache entry, whatever the kinds of match in the window (custom
\* and tutorial queues, other modes than CLASSIC): none stays unenriched
\* forever.
C28_EveryMatchGetsEnriched ==
    \A m \in 1..MaxMatches : (m <= Len(played)) ~> Enriched(m)

\* C29: folding the first CLASSIC match with a non-empty role into the empty
\* record create_user_db makes succeeds: the role bucket the fold addresses
\* exists in the fresh record, and afterwards matches is 1, the count of that
\* role is 1 and its wins + losses is 1.
C29_FirstFoldIntoFreshRecord ==
    [][ (/\ pc = "fold"
         /\ summoner_db = Some(create_user_db(PlayerName))
         /\ match_preview_list[cursor].player_summary # None
         /\ match_preview_list[cursor].info.gameMode = "CLASSIC"
         /\ match_preview_list[cursor].player_summary[1].participant.teamPosition # "")
        => LET position ==
                   Lower(match_preview_list[cursor].player_summary[1].participant.teamPosition)
           IN  /\ position \in DOMAIN summoner_db[1].roles
               /\ pc' \in {"fold", "save"}
               /\ summoner_db' # None
               /\ summoner_db'[1].matches = 1
               /\ summoner_db'[1].roles[position].num = 1
               /\ summoner_db'[1].roles[position].wins
                     + summoner_db'[1].roles[position].losses = 1 ]_vars

\* C30: the fold is total on the matches it admits: for every CLASSIC match
\* with a non-empty role, also one whose duration rounds to 0 minutes and is
\* folded while the accumulated minutes are 0, add_database_ranked_stats ends
\* without a division error and leaves per_min defined.
C30_FoldIsTotal ==
    [][ (/\ pc = "fold"
         /\ match_preview_list[cursor].player_summary # None
         /\ match_preview_list[cursor].info.gameMode = "CLASSIC"
         /\ match_preview_list[cursor].player_summary[1].participant.teamPosition # "")
        => outcome' # "ZeroDivisionError" ]_vars
\* The AggregateStats an interaction for this display name reads and writes
\* (views.py:51): the counts, totals, role buckets and champion rollups of
\* the rows of the name.
AggregateStatsOf(table, summoner_name) ==
    {[matches |-> table[i].matches, minutes |-> table[i].minutes,
      stats |-> table[i].stats, roles |-> table[i].roles,
      champions |-> table[i].champions] : i \in SummonerRows(table, summoner_name)}

\* The match cache of the player: the rows of the ids of its own matches.
PlayerMatchRows(table) ==
    {table[i] : i \in {j \in 1..Len(table) : table[j].match_id <= MaxMatches}}

\* C31: an interaction of the namesake (same display name, another server)
\* that folds its matches leaves the AggregateStats of the player, where
\* the player has some, and the match cache of the player as they were.
C31_NamesakeLeavesPlayerAlone ==
    [][(namesake.folded' # namesake.folded
            /\ SummonerRows(Summoner, PlayerName) # {})
        => /\ AggregateStatsOf(Summoner', PlayerName)
                = AggregateStatsOf(Summoner, PlayerName)
           /\ PlayerMatchRows(Match') = PlayerMatchRows(Match)]_vars

\* The wins, losses and count of a role bucket, whatever the case of its
\* fields.
RoleWins(role) == IF "wins" \in DOMAIN role THEN role.wins ELSE role.WINS

RoleLosses(role) == IF "losses" \in DOMAIN role THEN role.losses ELSE role.LOSSES

\* The counts of db agree: the champion counts add up to matches, every
\* champion and every role bucket has wins + losses = count, and the
\* win_rate of every champion is its wins over its count as a percentage
\* rounded to 2 decimals.
CountsAgree(db) ==
    /\ SumSeq([i \in 1..Len(db.champions) |-> db.champions[i].data.num]) = db.matches
    /\ \A i \in 1..Len(db.champions) :
          LET c == db.champions[i].data
          IN  /\ c.num > 0
              /\ c.wins + c.losses = c.num
              /\ IsRounded2(c.win_rate, 100 * c.wins, c.num)
    /\ \A position \in DOMAIN db.roles :
          RoleWins(db.roles[position]) + RoleLosses(db.roles[position])
              = RoleNum(db.roles[position])

\* C32: starting from an empty AggregateStats, after any sequence of folds
\* the counts agree, in the object in memory after every iteration of the
\* fold loop and in every stored row.
C32_CountsAgree ==
    /\ summoner_db # None => CountsAgree(summoner_db[1])
    /\ \A i \in 1..Len(Summoner) : CountsAgree(Summoner[i])

\* Three matches are folded and stored: two champions, one of them with a
\* win and a loss (win_rate 50.00), and a role bucket of two matches with
\* one win.
C32_Witness ==
    /\ pc = "summaries"
    /\ Len(saved_folds) = 3
    /\ Summoner[1].matches = 3
    /\ Len(Summoner[1].champions) = 2
    /\ \E i \in 1..2 :
          LET c == Summoner[1].champions[i].data
          IN  c.num = 2 /\ c.wins = 1 /\ c.losses = 1 /\ c.win_rate = 5000
    /\ \E position \in DOMAIN Summoner[1].roles :
          /\ RoleNum(Summoner[1].roles[position]) = 2
          /\ RoleWins(Summoner[1].roles[position]) = 1

====
